---- MODULE Spec2Model ----
(***************************************************************************)
(* Model of the osrswiki price client (src/client.go): the four query      *)
(* operations LatestPrices, ItemMapping, PriceData and Timeseries and the   *)
(* shared doRequest step.  Strings whose characters matter (URLs, query    *)
(* strings, decimal renderings, JSON object keys) are sequences of         *)
(* one-character strings, so formatting, escaping and parsing are computed *)
(* character by character as the Go code and its standard library do.      *)
(***************************************************************************)
EXTENDS Integers, Sequences, FiniteSets, TLC

\* ---------------------------------------------------------------- bounds
\* concurrent calls on the one shared client
NumCalls == 2
\* longest itemIDs argument of LatestPrices
MaxIDs == 2
\* most keys of a response's data object
MaxKeys == 2
\* most elements of a response's JSON array
MaxItems == 2

\* ------------------------------------------------------- program constants
pricesEndpoint ==
  <<"h","t","t","p","s",":","/","/","p","r","i","c","e","s",".","r","u","n",
    "e","s","c","a","p","e",".","w","i","k","i","/","a","p","i","/","v","1">>

WorldRegular == <<"o","s","r","s">>
WorldDeadman == <<"d","m","m">>
WorldFreshStart == <<"f","s","w">>

FiveMinutes == <<"5","m">>
OneHour == <<"1","h">>
SixHours == <<"6","h">>
TwentyFourHours == <<"2","4","h">>

MethodGet == "GET"
StatusOK == 200

\* ------------------------------------------------------------- characters
\* The characters the model uses, in ASCII order: a character's index is its
\* rank, which is all that byte-wise string comparison needs.
Ascii ==
  <<" ","%","&","+",",","-",".","/","0","1","2","3","4","5","6","7","8","9",
    ":","=","?","A","B","C","D","E","F","_","a","b","c","d","e","f","g","h",
    "i","j","k","l","m","n","o","p","q","r","s","t","u","v","w","x","y","z",
    "~">>

Rank(c) == CHOOSE i \in 1..Len(Ascii) : Ascii[i] = c

Digits == <<"0","1","2","3","4","5","6","7","8","9">>

IsDigit(c) == \E i \in 1..10 : Digits[i] = c

DigitVal(c) == (CHOOSE i \in 1..10 : Digits[i] = c) - 1

\* byte-wise s < t, as Go compares strings
RECURSIVE StrLess(_, _)
StrLess(s, t) ==
  IF t = <<>> THEN FALSE
  ELSE IF s = <<>> THEN TRUE
  ELSE IF Head(s) = Head(t) THEN StrLess(Tail(s), Tail(t))
  ELSE Rank(Head(s)) < Rank(Head(t))

\* ---------------------------------------------------------- strconv, fmt
\* the decimal digits of n >= 0, most significant first, no leading zero
RECURSIVE FormatUint(_)
FormatUint(n) ==
  IF n < 10 THEN <<Digits[n + 1]>>
  ELSE FormatUint(n \div 10) \o <<Digits[(n % 10) + 1]>>

\* strconv.FormatInt(n, 10), also fmt's %d
FormatInt(n) == IF n < 0 THEN <<"-">> \o FormatUint(-n) ELSE FormatUint(n)

\* strings.Join(elems, sep)
RECURSIVE Join(_, _)
Join(elems, sep) ==
  IF elems = <<>> THEN <<>>
  ELSE IF Len(elems) = 1 THEN elems[1]
  ELSE elems[1] \o sep \o Join(Tail(elems), sep)

\* strconv.ParseUint(s, 10, 64) on the digits after the sign: a syntax error
\* on the empty string or on any character that is not a decimal digit (base
\* 10 admits no underscore).  The keys of the model have at most eight digits,
\* so the 64-bit overflow test of the library cannot fire.
RECURSIVE ParseUintFrom(_, _)
ParseUintFrom(s, acc) ==
  IF s = <<>> THEN [ok |-> TRUE, val |-> acc]
  ELSE IF ~IsDigit(Head(s)) THEN [ok |-> FALSE, val |-> 0]
  ELSE ParseUintFrom(Tail(s), acc * 10 + DigitVal(Head(s)))

ParseUint(s) ==
  IF s = <<>> THEN [ok |-> FALSE, val |-> 0] ELSE ParseUintFrom(s, 0)

\* strconv.ParseInt(s, 10, bitSize): an optional sign, the magnitude by
\* ParseUint, then the range test against 1 << (bitSize - 1).
ParseInt(s, bitSize) ==
  IF s = <<>> THEN [ok |-> FALSE, val |-> 0]
  ELSE
    LET neg == Head(s) = "-"
        rest == IF Head(s) \in {"+", "-"} THEN Tail(s) ELSE s
        un == ParseUint(rest)
        cutoff == 2^(bitSize - 1)
    IN  IF ~un.ok THEN [ok |-> FALSE, val |-> 0]
        ELSE IF ~neg /\ un.val >= cutoff THEN [ok |-> FALSE, val |-> cutoff - 1]
        ELSE IF neg /\ un.val > cutoff THEN [ok |-> FALSE, val |-> -cutoff]
        ELSE [ok |-> TRUE, val |-> IF neg THEN -un.val ELSE un.val]

\* the conversion int16(n): n reduced into [-32768, 32767] modulo 2^16
Int16(n) == ((n + 32768) % 65536) - 32768

\* ---------------------------------------------------------------- net/url
\* url.QueryEscape leaves letters, digits and - _ . ~ as they are, turns a
\* space into + and writes any other byte as %XX.
Unreserved ==
  {Ascii[i] : i \in 9..18} \cup {Ascii[i] : i \in 22..55}
    \cup {"-", "_", ".", "~"}

PercentCode(c) ==
  CASE c = "%" -> <<"%","2","5">>
    [] c = "&" -> <<"%","2","6">>
    [] c = "+" -> <<"%","2","B">>
    [] c = "," -> <<"%","2","C">>
    [] c = "/" -> <<"%","2","F">>
    [] c = ":" -> <<"%","3","A">>
    [] c = "=" -> <<"%","3","D">>
    [] c = "?" -> <<"%","3","F">>

RECURSIVE QueryEscape(_)
QueryEscape(s) ==
  IF s = <<>> THEN <<>>
  ELSE (IF Head(s) \in Unreserved THEN <<Head(s)>>
        ELSE IF Head(s) = " " THEN <<"+">>
        ELSE PercentCode(Head(s))) \o QueryEscape(Tail(s))

\* the keys of a url.Values in increasing byte order (Encode sorts them)
RECURSIVE SortedKeys(_)
SortedKeys(ks) ==
  IF ks = {} THEN <<>>
  ELSE LET m == CHOOSE k \in ks : \A o \in ks \ {k} : StrLess(k, o)
       IN  <<m>> \o SortedKeys(ks \ {m})

\* key=value&key=value over the keys in the order given and, per key, its
\* values in the order they were added
RECURSIVE EncodeValuesOf(_, _)
EncodeValuesOf(key, vals) ==
  IF vals = <<>> THEN <<>>
  ELSE <<QueryEscape(key) \o <<"=">> \o QueryEscape(Head(vals))>>
         \o EncodeValuesOf(key, Tail(vals))

RECURSIVE EncodePairs(_, _)
EncodePairs(keys, v) ==
  IF keys = <<>> THEN <<>>
  ELSE EncodeValuesOf(Head(keys), v[Head(keys)]) \o EncodePairs(Tail(keys), v)

Reverse(s) == [i \in 1..Len(s) |-> s[Len(s) + 1 - i]]

\* an Encode that walks the map without sorting its keys: one order Go's map
\* iteration can produce
EncodeUnsorted(v) == Join(EncodePairs(Reverse(SortedKeys(DOMAIN v)), v), <<"&">>)

\* url.Values.Encode
Encode(v) == Join(EncodePairs(SortedKeys(DOMAIN v), v), <<"&">>)

\* q.Add(key, value) for each key of query in the order the range over the Go
\* map yields them
RECURSIVE AddAll(_, _, _)
AddAll(q, order, query) ==
  IF order = <<>> THEN q
  ELSE LET k == Head(order)
           old == IF k \in DOMAIN q THEN q[k] ELSE <<>>
       IN  AddAll([x \in DOMAIN q \cup {k} |->
                     IF x = k THEN Append(old, query[k]) ELSE q[x]],
                  Tail(order), query)

\* the orders in which a range over a Go map can yield the keys ks
Orders(ks) ==
  {o \in [1..Cardinality(ks) -> ks] : \A i, j \in DOMAIN o : i # j => o[i] # o[j]}

EmptyMap == [k \in {} |-> 0]

MapPut(m, k, v) == [x \in DOMAIN m \cup {k} |-> IF x = k THEN v ELSE m[x]]

\* ------------------------------------------------------------------ values
Procs == 1..NumCalls

Worlds == {WorldRegular, WorldDeadman, WorldFreshStart}

\* a TimeInterval is any string: the four constants and one that is none of them
OtherInterval == <<"7","d">>
Intervals == {FiveMinutes, OneHour, SixHours, TwentyFourHours, OtherInterval}

ItemIDs == {-32768, -1, 2, 4151}

\* a *time.Time: nil, or a time of sec seconds and nsec nanoseconds since the epoch
NoTime == [set |-> FALSE, sec |-> 0, nsec |-> 0]
Times ==
  {[set |-> TRUE, sec |-> 1700000000, nsec |-> 0],
   [set |-> TRUE, sec |-> 0, nsec |-> 999999999],
   [set |-> TRUE, sec |-> -1, nsec |-> 500000000]}

\* t.Unix()
Unix(t) == t.sec

UserAgents == {"osrswiki-cli/0.0.1", "price-bot/2"}

SeqsUpTo(S, n) == UNION {[1..k -> S] : k \in 0..n}

NoArgs ==
  [op |-> "none", world |-> <<>>, itemIDs |-> <<>>, interval |-> <<>>,
   timestamp |-> NoTime, itemID |-> 0]

LatestArgs(ws, ids, n) ==
  {[op |-> "LatestPrices", world |-> w, itemIDs |-> l, interval |-> <<>>,
    timestamp |-> NoTime, itemID |-> 0] : w \in ws, l \in SeqsUpTo(ids, n)}

MappingArgs(ws) ==
  {[op |-> "ItemMapping", world |-> w, itemIDs |-> <<>>, interval |-> <<>>,
    timestamp |-> NoTime, itemID |-> 0] : w \in ws}

PriceDataArgs(ws, is, ts) ==
  {[op |-> "PriceData", world |-> w, itemIDs |-> <<>>, interval |-> i,
    timestamp |-> t, itemID |-> 0] : w \in ws, i \in is, t \in ts}

TimeseriesArgs(ws, is, ids) ==
  {[op |-> "Timeseries", world |-> w, itemIDs |-> <<>>, interval |-> i,
    timestamp |-> NoTime, itemID |-> d] : w \in ws, i \in is, d \in ids}

\* every call the bounds allow
AllArgs ==
  LatestArgs(Worlds, ItemIDs, MaxIDs) \cup MappingArgs(Worlds)
    \cup PriceDataArgs(Worlds, Intervals, {NoTime} \cup Times)
    \cup TimeseriesArgs(Worlds, Intervals, ItemIDs)

\* a few calls of each operation
FewArgs ==
  LatestArgs({WorldRegular}, {4151}, 1) \cup MappingArgs({WorldDeadman})
    \cup PriceDataArgs({WorldRegular}, {FiveMinutes, SixHours}, {NoTime})
    \cup TimeseriesArgs({WorldFreshStart}, {TwentyFourHours}, {2})

\* the caller's context when the call starts
AllCtx == {"nil", "live", "canceled"}

\* ----------------------------------------------------------- the responses
\* the records of a response (a LatestPrice, PriceData, TimeseriesData or
\* ItemMapping object), told apart by name only
Recs == {"r1", "r2"}

\* strings a data object may use as keys
KeyStrings ==
  {<<"5">>, <<"0","5">>, <<"+","5">>, <<"4","1","5","1">>,
   <<"3","2","7","6","7">>, <<"3","2","7","6","8">>,
   <<"-","3","2","7","6","8">>, <<"-","3","2","7","6","9">>,
   <<"9","9","9","9","9","9","9","9">>, <<>>, <<"5","a">>, <<"-">>}

KeySets(n) == {ks \in SUBSET KeyStrings : Cardinality(ks) <= n}

\* a response body: text that is no JSON, a top-level JSON array, or a JSON
\* object whose data member is absent, an object, an array or a number
Malformed == [kind |-> "malformed", data |-> "none", m |-> EmptyMap, l |-> <<>>]
ArrayBody(l) == [kind |-> "array", data |-> "none", m |-> EmptyMap, l |-> l]
ObjNoData == [kind |-> "object", data |-> "absent", m |-> EmptyMap, l |-> <<>>]
ObjScalar == [kind |-> "object", data |-> "number", m |-> EmptyMap, l |-> <<>>]
ObjMap(m) == [kind |-> "object", data |-> "object", m |-> m, l |-> <<>>]
ObjList(l) == [kind |-> "object", data |-> "array", m |-> EmptyMap, l |-> l]

AllBodies ==
  {Malformed, ObjNoData, ObjScalar}
    \cup {ArrayBody(l) : l \in SeqsUpTo(Recs, MaxItems)}
    \cup {ObjList(l) : l \in SeqsUpTo(Recs, MaxItems)}
    \cup UNION {{ObjMap(m) : m \in [ks -> Recs]} : ks \in KeySets(MaxKeys)}

FewBodies ==
  {Malformed, ArrayBody(<<"r1", "r2">>), ObjList(<<"r2">>),
   ObjMap((<<"4","1","5","1">> :> "r1") @@ (<<"5">> :> "r2")),
   ObjMap((<<"4","1","5","1">> :> "r1") @@ (<<"9","9","9","9","9","9","9","9">> :> "r2")),
   ObjMap(<<"3","2","7","6","8">> :> "r1")}

AllStatus == {200, 201, 204, 404, 503}
FewStatus == {200, 503}

NoResp == [status |-> 0, body |-> Malformed]

\* what a call returns: a value and an error
Nil == [kind |-> "nil", m |-> EmptyMap, l |-> <<>>]
MapValue(m) == [kind |-> "map", m |-> m, l |-> <<>>]
ListValue(l) == [kind |-> "list", m |-> EmptyMap, l |-> l]

\* an error: the stage that failed, the error it wraps, and for a status
\* error the code as the message renders it (%d)
NoErr == [class |-> "nil", cause |-> "", code |-> <<>>]
Err(class, cause, code) == [class |-> class, cause |-> cause, code |-> code]

NoRet == [value |-> Nil, err |-> NoErr]

\* ------------------------------------------------------ request building
Str_latest == <<"l","a","t","e","s","t">>
Str_mapping == <<"m","a","p","p","i","n","g">>
Str_timeseries == <<"t","i","m","e","s","e","r","i","e","s">>
Key_id == <<"i","d">>
Key_timestamp == <<"t","i","m","e","s","t","a","m","p">>
Key_timestep == <<"t","i","m","e","s","t","e","p">>

\* fmt.Sprintf("%s/%s/%s", pricesEndpoint, world, last)
URLOf(world, last) == pricesEndpoint \o <<"/">> \o world \o <<"/">> \o last

\* LatestPrices: the id parameter, also for an empty list of IDs
LatestQueryAlways(itemIDs) ==
  Key_id :> Join([i \in 1..Len(itemIDs) |-> FormatInt(itemIDs[i])], <<",">>)

\* LatestPrices: the query map
LatestQuery(itemIDs) ==
  IF Len(itemIDs) > 0
  THEN Key_id :> Join([i \in 1..Len(itemIDs) |-> FormatInt(itemIDs[i])], <<",">>)
  ELSE EmptyMap

\* PriceData: an interval test that lets 6h through as well
IntervalSupportedLoose(interval) == interval # TwentyFourHours /\ interval # OtherInterval

\* PriceData: the local validation of the interval
IntervalSupported(interval) == ~(interval # FiveMinutes /\ interval # OneHour)

\* PriceData: the query map
PriceDataQuery(timestamp) ==
  IF timestamp.set THEN Key_timestamp :> FormatInt(Unix(timestamp)) ELSE EmptyMap

\* Timeseries: the query map
TimeseriesQuery(timestep, itemID) ==
  (Key_id :> FormatInt(itemID)) @@ (Key_timestep :> timestep)

\* the url and query map an operation hands to doRequest
RequestOf(a) ==
  CASE a.op = "LatestPrices" ->
         [url |-> URLOf(a.world, Str_latest), query |-> LatestQuery(a.itemIDs)]
    [] a.op = "ItemMapping" ->
         [url |-> URLOf(a.world, Str_mapping), query |-> EmptyMap]
    [] a.op = "PriceData" ->
         [url |-> URLOf(a.world, a.interval), query |-> PriceDataQuery(a.timestamp)]
    [] a.op = "Timeseries" ->
         [url |-> URLOf(a.world, Str_timeseries),
          query |-> TimeseriesQuery(a.interval, a.itemID)]

\* a request built without the caller's context (http.NewRequest)
NewRequestNoContext(c, url) ==
  [ok |-> c # "nil",
   req |-> [method |-> MethodGet, url |-> url, rawQuery |-> <<>>,
            userAgent |-> "Go-http-client/1.1", ctx |-> "background"]]

\* http.NewRequestWithContext(ctx, http.MethodGet, url, nil): fails on a nil
\* context; the request it returns is bound to the caller's context
NewRequestWithContext(c, url) ==
  [ok |-> c # "nil",
   req |-> [method |-> MethodGet, url |-> url, rawQuery |-> <<>>,
            userAgent |-> "Go-http-client/1.1", ctx |-> "caller"]]

\* a status test that accepts every 2xx code
StatusAcceptedAny2xx(code) == code \div 100 = 2

\* resp.StatusCode != http.StatusOK is the failure
StatusAccepted(code) == ~(code # StatusOK)

\* an item ID parsed at 31 bits, to be narrowed by int16()
ParseItemIDWide(s) == ParseInt(s, 31)

\* strconv.ParseInt(itemIDStr, 10, 16)
ParseItemID(s) == ParseInt(s, 16)

\* a parse failure that hands back the entries decoded so far
ParseFailurePartial(partial) ==
  [value |-> MapValue(partial), err |-> Err("parsing item ID", "strconv", <<>>)]

\* return nil, fmt.Errorf("error parsing item ID: %w", err)
ParseFailure(partial) == [value |-> Nil, err |-> Err("parsing item ID", "strconv", <<>>)]

\* json.Unmarshal(body, &response) per operation: whether it succeeds
UnmarshalOK(op, body) ==
  CASE op \in {"LatestPrices", "PriceData"} ->
         body.kind = "object" /\ body.data \in {"absent", "object"}
    [] op = "Timeseries" ->
         body.kind = "object" /\ body.data \in {"absent", "array"}
    [] op = "ItemMapping" -> body.kind = "array"

\* ------------------------------------------------------------------- state
VARIABLES
  client,    \* the Client: userAgent and httpClient, set by NewClient
  pc,        \* per call: idle, sending (inside httpClient.Do), reading
             \* (inside io.ReadAll), parsing (the loop over response.Data), done
  args,      \* per call: the operation and its arguments
  ctx,       \* per call: the caller's context: nil, live or canceled
  sent,      \* per call: the requests handed to the transport, in order
  resp,      \* per call: the response Do returned
  bodyRead,  \* per call: whether the response body has been read
  data,      \* per call: response.Data after json.Unmarshal
  todo,      \* per call: the keys of response.Data the loop has yet to visit
  result,    \* per call: the loop's result map
  ret        \* per call: the value and error returned

vars == <<client, pc, args, ctx, sent, resp, bodyRead, data, todo, result, ret>>

\* NewClient(userAgent)
NewClient(userAgent) == [userAgent |-> userAgent, httpClient |-> "http.Client{}"]

Init ==
  /\ client \in {NewClient(ua) : ua \in UserAgents}
  /\ pc = [p \in Procs |-> "idle"]
  /\ args = [p \in Procs |-> NoArgs]
  /\ ctx = [p \in Procs |-> "nil"]
  /\ sent = [p \in Procs |-> <<>>]
  /\ resp = [p \in Procs |-> NoResp]
  /\ bodyRead = [p \in Procs |-> FALSE]
  /\ data = [p \in Procs |-> EmptyMap]
  /\ todo = [p \in Procs |-> {}]
  /\ result = [p \in Procs |-> EmptyMap]
  /\ ret = [p \in Procs |-> NoRet]

\* the call p returns r
Finish(p, r) ==
  /\ pc' = [pc EXCEPT ![p] = "done"]
  /\ ret' = [ret EXCEPT ![p] = r]

\* req.Header.Set("User-Agent", c.userAgent)
SetUserAgent(req, c) == [req EXCEPT !.userAgent = c.userAgent]

\* The operation is called with arguments a and context c and runs up to the
\* point where doRequest blocks in c.httpClient.Do: PriceData's interval test,
\* the url and query map, NewRequestWithContext, the header and the query
\* string.  The range over the query map yields its keys in any order.
Call(p, A, C) ==
  /\ pc[p] = "idle"
  /\ \E a \in A, c \in C :
       /\ args' = [args EXCEPT ![p] = a]
       /\ ctx' = [ctx EXCEPT ![p] = c]
       /\ IF a.op = "PriceData" /\ ~IntervalSupported(a.interval)
          THEN /\ Finish(p, [value |-> Nil, err |-> Err("validation", "", <<>>)])
               /\ UNCHANGED sent
          ELSE LET r == RequestOf(a)
                   nr == NewRequestWithContext(c, r.url)
               IN  IF ~nr.ok
                   THEN /\ Finish(p, [value |-> Nil,
                                      err |-> Err("creating request", "nil Context", <<>>)])
                        /\ UNCHANGED sent
                   ELSE \E order \in Orders(DOMAIN r.query) :
                          LET q == AddAll(EmptyMap, order, r.query)
                              req == [SetUserAgent(nr.req, client)
                                        EXCEPT !.rawQuery = Encode(q)]
                          IN  /\ sent' = [sent EXCEPT ![p] = Append(@, req)]
                              /\ pc' = [pc EXCEPT ![p] = "sending"]
                              /\ UNCHANGED ret
  /\ UNCHANGED <<client, resp, bodyRead, data, todo, result>>

\* the caller cancels the context (or its deadline passes) while the call runs
Cancel(p) ==
  /\ pc[p] \in {"sending", "reading", "parsing"}
  /\ ctx[p] = "live"
  /\ ctx' = [ctx EXCEPT ![p] = "canceled"]
  /\ UNCHANGED <<client, pc, args, sent, resp, bodyRead, data, todo, result, ret>>

\* the request in flight is bound to a context that is done
Aborted(p) ==
  /\ sent[p] # <<>>
  /\ sent[p][Len(sent[p])].ctx = "caller"
  /\ ctx[p] = "canceled"

\* The server answers with status st and body b while the request's context is
\* not done: Do returns the response, and doRequest tests the status.
ServerRespond(p, S, B) ==
  /\ pc[p] = "sending"
  /\ ~Aborted(p)
  /\ \E st \in S, b \in B :
       /\ resp' = [resp EXCEPT ![p] = [status |-> st, body |-> b]]
       /\ IF StatusAccepted(st)
          THEN /\ pc' = [pc EXCEPT ![p] = "reading"]
               /\ UNCHANGED ret
          ELSE Finish(p, [value |-> Nil,
                          err |-> Err("unexpected status code", "", FormatInt(st))])
  /\ UNCHANGED <<client, args, ctx, sent, bodyRead, data, todo, result>>

\* a transport failure answered by sending the request again
TransportFailRetry(p) ==
  /\ pc[p] = "sending"
  /\ Len(sent[p]) < 2
  /\ sent' = [sent EXCEPT ![p] = Append(@, @[1])]
  /\ UNCHANGED <<client, pc, args, ctx, resp, bodyRead, data, todo, result, ret>>

\* Do fails (DNS, connection, timeout): doRequest returns the wrapped error
TransportFail(p) ==
  /\ pc[p] = "sending"
  /\ Finish(p, [value |-> Nil, err |-> Err("sending request", "network", <<>>)])
  /\ UNCHANGED <<client, args, ctx, sent, resp, bodyRead, data, todo, result>>

\* Do returns the context's error: the request's context is done before the
\* server has answered
DoCanceled(p) ==
  /\ pc[p] = "sending"
  /\ Aborted(p)
  /\ Finish(p, [value |-> Nil,
                err |-> Err("sending request", "context canceled", <<>>)])
  /\ UNCHANGED <<client, args, ctx, sent, resp, bodyRead, data, todo, result>>

\* a body taken from a buffer the calls of the client share: the body of a
\* response some call holds
BodyOfShared(p) ==
  resp[CHOOSE q \in Procs : pc[q] \in {"reading", "parsing", "done"}
                             /\ \A o \in Procs :
                                  pc[o] \in {"reading", "parsing", "done"} => q <= o].body

\* the bytes io.ReadAll(resp.Body) returns: the body of the call's own response
BodyOf(p) == resp[p].body

\* io.ReadAll fails: the stream breaks, or the context is canceled meanwhile
ReadBodyFail(p) ==
  /\ pc[p] = "reading"
  /\ bodyRead' = [bodyRead EXCEPT ![p] = TRUE]
  /\ Finish(p, [value |-> Nil,
                err |-> Err("reading response body",
                            IF Aborted(p) THEN "context canceled" ELSE "network",
                            <<>>)])
  /\ UNCHANGED <<client, args, ctx, sent, resp, data, todo, result>>

\* io.ReadAll returns the body and the operation unmarshals it: ItemMapping
\* and Timeseries return here, LatestPrices and PriceData enter their loop
ReadBody(p) ==
  /\ pc[p] = "reading"
  /\ bodyRead' = [bodyRead EXCEPT ![p] = TRUE]
  /\ LET b == BodyOf(p)
         op == args[p].op
     IN  IF ~UnmarshalOK(op, b)
         THEN /\ Finish(p, [value |-> Nil,
                            err |-> Err("unmarshaling response", "json", <<>>)])
              /\ UNCHANGED <<data, todo, result>>
         ELSE IF op \in {"LatestPrices", "PriceData"}
         THEN /\ data' = [data EXCEPT ![p] = b.m]
              /\ todo' = [todo EXCEPT ![p] = DOMAIN b.m]
              /\ result' = [result EXCEPT ![p] = EmptyMap]
              /\ pc' = [pc EXCEPT ![p] = "parsing"]
              /\ UNCHANGED ret
         ELSE /\ Finish(p, [value |-> IF b.kind = "object" /\ b.data = "absent"
                                      THEN Nil ELSE ListValue(b.l),
                            err |-> NoErr])
              /\ UNCHANGED <<data, todo, result>>
  /\ UNCHANGED <<client, args, ctx, sent, resp>>

\* One turn of `for itemIDStr, data := range response.Data`: the range yields
\* any key not yet visited; a key that does not parse ends the call, a key that
\* parses is stored under int16(itemID).  With no key left the map is returned.
ParseLoop(p) ==
  /\ pc[p] = "parsing"
  /\ IF todo[p] = {}
     THEN /\ Finish(p, [value |-> MapValue(result[p]), err |-> NoErr])
          /\ UNCHANGED <<todo, result>>
     ELSE \E k \in todo[p] :
            LET r == ParseItemID(k)
            IN  IF ~r.ok
                THEN /\ Finish(p, ParseFailure(result[p]))
                     /\ UNCHANGED <<todo, result>>
                ELSE /\ result' = [result EXCEPT
                                     ![p] = MapPut(@, Int16(r.val), data[p][k])]
                     /\ todo' = [todo EXCEPT ![p] = @ \ {k}]
                     /\ UNCHANGED <<pc, ret>>
  /\ UNCHANGED <<client, args, ctx, sent, resp, bodyRead, data>>

\* the caller takes the returned pair; the call's locals are gone
Return(p) ==
  /\ pc[p] = "done"
  /\ pc' = [pc EXCEPT ![p] = "idle"]
  /\ args' = [args EXCEPT ![p] = NoArgs]
  /\ ctx' = [ctx EXCEPT ![p] = "nil"]
  /\ sent' = [sent EXCEPT ![p] = <<>>]
  /\ resp' = [resp EXCEPT ![p] = NoResp]
  /\ bodyRead' = [bodyRead EXCEPT ![p] = FALSE]
  /\ data' = [data EXCEPT ![p] = EmptyMap]
  /\ todo' = [todo EXCEPT ![p] = {}]
  /\ result' = [result EXCEPT ![p] = EmptyMap]
  /\ ret' = [ret EXCEPT ![p] = NoRet]
  /\ UNCHANGED client

\* one step of call p, its arguments, contexts, statuses and bodies drawn
\* from A, C, S and B
Step(p, A, C, S, B) ==
  \/ Call(p, A, C)
  \/ Cancel(p)
  \/ ServerRespond(p, S, B)
  \/ TransportFail(p)
  \/ DoCanceled(p)
  \/ ReadBodyFail(p)
  \/ ReadBody(p)
  \/ ParseLoop(p)
  \/ Return(p)

\* the single caller of the sequential specifications
OneCall == {1}

\* one call at a time, every argument combination, a few responses
Next == \E p \in OneCall : Step(p, AllArgs, AllCtx, FewStatus, FewBodies)
Spec == Init /\ [][Next]_vars

\* one call at a time, a few argument combinations, every response
NextDecode == \E p \in OneCall : Step(p, FewArgs, {"live"}, AllStatus, AllBodies)
SpecDecode == Init /\ [][NextDecode]_vars

\* the calls and responses of the concurrent specification: two operations,
\* bodies that differ from call to call
ConcArgs ==
  {a \in LatestArgs({WorldRegular}, {2}, 1) : a.itemIDs # <<>>}
    \cup TimeseriesArgs({WorldDeadman}, {OneHour}, {4151})

ConcBodies ==
  {ObjMap(<<"5">> :> "r1"), ObjMap((<<"5">> :> "r2") @@ (<<"4","1","5","1">> :> "r1")),
   ObjList(<<"r2", "r1">>)}

\* every interleaving of the steps of NumCalls calls on the one client
NextConc == \E p \in Procs : Step(p, ConcArgs, {"live"}, FewStatus, ConcBodies)
SpecConc == Init /\ [][NextConc]_vars

\* One call at a time under cancellation.  Do selects on the request
\* context's Done channel, so a call blocked in Do with its context done
\* does return: weak fairness of DoCanceled.
NextLive == \E p \in OneCall : Step(p, FewArgs, AllCtx, FewStatus, FewBodies)
SpecLive == Init /\ [][NextLive]_vars /\ \A p \in OneCall : WF_vars(DoCanceled(p))

\* ------------------------------------------- how a server reads the query
\* s cut at every c
RECURSIVE SplitOn(_, _)
SplitOn(s, c) ==
  IF s = <<>> THEN << <<>> >>
  ELSE LET rest == SplitOn(Tail(s), c)
       IN  IF Head(s) = c THEN << <<>> >> \o rest
           ELSE << <<Head(s)>> \o Head(rest) >> \o Tail(rest)

\* url.QueryUnescape: %XX back to its byte, + back to a space
RECURSIVE QueryUnescape(_)
QueryUnescape(s) ==
  IF s = <<>> THEN <<>>
  ELSE IF Head(s) = "%" /\ Len(s) >= 3
  THEN <<CHOOSE c \in {"%", "&", "+", ",", "/", ":", "=", "?"} :
           PercentCode(c) = SubSeq(s, 1, 3)>>
         \o QueryUnescape(SubSeq(s, 4, Len(s)))
  ELSE <<IF Head(s) = "+" THEN " " ELSE Head(s)>> \o QueryUnescape(Tail(s))

RECURSIVE ParsePairs(_, _)
ParsePairs(pairs, acc) ==
  IF pairs = <<>> THEN acc
  ELSE LET kv == SplitOn(Head(pairs), "=")
           k == QueryUnescape(kv[1])
           v == QueryUnescape(Join(Tail(kv), <<"=">>))
           old == IF k \in DOMAIN acc THEN acc[k] ELSE <<>>
       IN  ParsePairs(Tail(pairs), MapPut(acc, k, Append(old, v)))

\* url.ParseQuery: the parameters of a raw query, each with its values in order
ParseQuery(rq) ==
  IF rq = <<>> THEN EmptyMap ELSE ParsePairs(SplitOn(rq, "&"), EmptyMap)

\* ------------------------------------------------------------ the oracles
\* the decimal numerals of the item IDs and times of the model, written out
DecimalOf ==
  (-32768 :> <<"-","3","2","7","6","8">>) @@ (-1 :> <<"-","1">>)
    @@ (0 :> <<"0">>) @@ (2 :> <<"2">>) @@ (4151 :> <<"4","1","5","1">>)
    @@ (1700000000 :> <<"1","7","0","0","0","0","0","0","0","0">>)
    @@ (200 :> <<"2","0","0">>) @@ (201 :> <<"2","0","1">>)
    @@ (204 :> <<"2","0","4">>) @@ (404 :> <<"4","0","4">>)
    @@ (503 :> <<"5","0","3">>)

\* the keys of KeyStrings that denote an integer of [-32768, 32767], each
\* with the integer
ExpectedID ==
  (<<"5">> :> 5) @@ (<<"0","5">> :> 5) @@ (<<"+","5">> :> 5)
    @@ (<<"4","1","5","1">> :> 4151) @@ (<<"3","2","7","6","7">> :> 32767)
    @@ (<<"-","3","2","7","6","8">> :> -32768)

\* the table's URL of each region, up to the last path element
RegionURL ==
  (WorldRegular :>
     <<"h","t","t","p","s",":","/","/","p","r","i","c","e","s",".","r","u","n",
       "e","s","c","a","p","e",".","w","i","k","i","/","a","p","i","/","v","1",
       "/","o","s","r","s","/">>)
  @@ (WorldDeadman :>
     <<"h","t","t","p","s",":","/","/","p","r","i","c","e","s",".","r","u","n",
       "e","s","c","a","p","e",".","w","i","k","i","/","a","p","i","/","v","1",
       "/","d","m","m","/">>)
  @@ (WorldFreshStart :>
     <<"h","t","t","p","s",":","/","/","p","r","i","c","e","s",".","r","u","n",
       "e","s","c","a","p","e",".","w","i","k","i","/","a","p","i","/","v","1",
       "/","f","s","w","/">>)

MapOps == {"LatestPrices", "PriceData"}

Done(p) == pc[p] = "done"
Succeeded(p) == Done(p) /\ ret[p].err = NoErr

\* ------------------------------------------------------------- the claims

\* C1: PriceData called with an interval other than 5m or 1h returns the
\* validation error with no result, and no request is handed to the transport
\* at any point of that call.
C1_InvalidIntervalSendsNothing ==
  \A p \in Procs :
    (args[p].op = "PriceData" /\ args[p].interval \notin {<<"5","m">>, <<"1","h">>})
      => /\ Done(p)
         /\ ret[p].err.class = "validation"
         /\ ret[p].value = Nil
         /\ sent[p] = <<>>

C1_Witness ==
  \E p \in Procs :
    /\ args[p].op = "PriceData"
    /\ args[p].interval = <<"6","h">>
    /\ Done(p)
    /\ ret[p].err.class = "validation"

\* C2: a response whose status is not exactly 200 (other 2xx codes included)
\* ends the call with the unexpected-status error carrying that code in
\* decimal; the body of such a response is never read and nothing is decoded.
C2_Non200IsStatusError ==
  \A p \in Procs :
    (resp[p] # NoResp /\ resp[p].status # 200)
      => /\ Done(p)
         /\ ret[p].err.class = "unexpected status code"
         /\ ret[p].err.code = DecimalOf[resp[p].status]
         /\ ret[p].value = Nil
         /\ ~bodyRead[p]
         /\ data[p] = EmptyMap /\ result[p] = EmptyMap

C2_Witness ==
  \E p \in Procs :
    /\ args[p].op = "Timeseries"
    /\ resp[p].status = 204
    /\ Done(p)
    /\ ret[p].err.code = <<"2","0","4">>

\* the call p of LatestPrices or PriceData has decoded its response's data
\* object (status 200, body read, unmarshal succeeded) and has returned
DecodedMapCall(p) ==
  /\ Done(p)
  /\ args[p].op \in MapOps
  /\ resp[p].status = 200
  /\ bodyRead[p]
  /\ ret[p].err.class # "reading response body"
  /\ resp[p].body.kind = "object" /\ resp[p].body.data = "object"

\* C3: in LatestPrices and PriceData a data key that does not denote an integer
\* of [-32768, 32767] fails the whole call with the item-ID parse error, and
\* every identifier of a returned map is the integer some key denotes, never
\* a wrapped one.
C3_OutOfRangeKeyFails ==
  \A p \in Procs :
    DecodedMapCall(p)
      => /\ (\E k \in DOMAIN resp[p].body.m : k \notin DOMAIN ExpectedID)
              => (ret[p].err.class = "parsing item ID" /\ ret[p].value = Nil)
         /\ ret[p].err = NoErr
              => \A id \in DOMAIN ret[p].value.m :
                   \E k \in DOMAIN resp[p].body.m :
                     k \in DOMAIN ExpectedID /\ ExpectedID[k] = id

C3_Witness ==
  \E p \in Procs :
    /\ DecodedMapCall(p)
    /\ <<"9","9","9","9","9","9","9","9">> \in DOMAIN resp[p].body.m
    /\ <<"5">> \in DOMAIN resp[p].body.m
    /\ ret[p].err.class = "parsing item ID"

\* C4: a call that returns an error returns no data, whatever the stage that
\* failed and whatever the loop had already decoded; data comes only with a
\* nil error.
C4_ErrorMeansNoData ==
  \A p \in Procs :
    /\ ret[p].err # NoErr => ret[p].value = Nil
    /\ ret[p].value # Nil => ret[p].err = NoErr
    /\ Done(p) =>
         ret[p].err.class \in
           {"nil", "validation", "creating request", "sending request",
            "unexpected status code", "reading response body",
            "unmarshaling response", "parsing item ID"}

C4_Witness ==
  \E p \in Procs :
    /\ Done(p)
    /\ ret[p].err.class = "parsing item ID"
    /\ result[p] # EmptyMap
    /\ ret[p].value = Nil

\* C5: when LatestPrices or PriceData succeeds, the returned map has one entry
\* per distinct key string of the response's data object.
C5_OneEntryPerKey ==
  \A p \in Procs :
    (DecodedMapCall(p) /\ ret[p].err = NoErr)
      => Cardinality(DOMAIN ret[p].value.m) = Cardinality(DOMAIN resp[p].body.m)

\* the id parameter's value cut at its commas
IdPieces(rq) == SplitOn(ParseQuery(rq)[Key_id][1], ",")

\* C6: LatestPrices with no item IDs sends a query with no id parameter; with
\* item IDs it sends exactly one id parameter, whose value is the IDs in
\* decimal, comma-joined, in the caller's order, duplicates and negative
\* values as given.
C6_LatestIdParameter ==
  \A p \in Procs :
    (args[p].op = "LatestPrices" /\ sent[p] # <<>>)
      => LET rq == sent[p][1].rawQuery
             ids == args[p].itemIDs
         IN  /\ ids = <<>> => (rq = <<>> /\ DOMAIN ParseQuery(rq) = {})
             /\ ids # <<>> =>
                  /\ DOMAIN ParseQuery(rq) = {<<"i","d">>}
                  /\ Len(ParseQuery(rq)[<<"i","d">>]) = 1
                  /\ IdPieces(rq) = [i \in 1..Len(ids) |-> DecimalOf[ids[i]]]
             /\ ids = <<4151, 2>> =>
                  ParseQuery(rq)[<<"i","d">>] = << <<"4","1","5","1",",","2">> >>

C6_Witness ==
  \E p \in Procs :
    /\ args[p].op = "LatestPrices"
    /\ args[p].itemIDs = <<4151, 2>>
    /\ pc[p] = "sending"
    /\ sent[p][1].rawQuery = <<"i","d","=","4","1","5","1","%","2","C","2">>

\* the url and raw query the interface table gives for the call's arguments
TableURL(a) ==
  RegionURL[a.world] \o
    (CASE a.op = "LatestPrices" -> <<"l","a","t","e","s","t">>
       [] a.op = "ItemMapping" -> <<"m","a","p","p","i","n","g">>
       [] a.op = "PriceData" -> a.interval
       [] a.op = "Timeseries" -> <<"t","i","m","e","s","e","r","i","e","s">>)

TableQuery(a) ==
  CASE a.op = "LatestPrices" ->
         IF a.itemIDs = <<>> THEN <<>>
         ELSE <<"i","d","=">>
                \o Join([i \in 1..Len(a.itemIDs) |-> DecimalOf[a.itemIDs[i]]],
                        <<"%","2","C">>)
    [] a.op = "ItemMapping" -> <<>>
    [] a.op = "PriceData" ->
         IF a.timestamp.set
         THEN <<"t","i","m","e","s","t","a","m","p","=">> \o DecimalOf[a.timestamp.sec]
         ELSE <<>>
    [] a.op = "Timeseries" ->
         <<"i","d","=">> \o DecimalOf[a.itemID]
           \o <<"&","t","i","m","e","s","t","e","p","=">> \o a.interval

\* C7: the request of ItemMapping, PriceData and Timeseries has exactly the
\* path and query of the interface table, a function of the arguments alone
\* whatever the order in which the parameters were added; Timeseries forwards
\* each interval token and rejects none.
C7_RequestMatchesTable ==
  \A p \in Procs :
    /\ (args[p].op \in {"ItemMapping", "PriceData", "Timeseries"} /\ sent[p] # <<>>)
         => /\ sent[p][1].url = TableURL(args[p])
            /\ sent[p][1].rawQuery = TableQuery(args[p])
    /\ (args[p].op = "Timeseries" /\ ctx[p] # "nil")
         => (sent[p] # <<>> /\ ret[p].err.class # "validation")
    /\ (args[p].op = "PriceData" /\ sent[p] # <<>>)
         => args[p].interval \in {<<"5","m">>, <<"1","h">>}

C7_Witness ==
  \E p \in Procs :
    /\ args[p].op = "Timeseries"
    /\ args[p].interval = <<"2","4","h">>
    /\ args[p].itemID = 4151
    /\ sent[p] # <<>>
    /\ sent[p][1].rawQuery =
         <<"i","d","=","4","1","5","1","&","t","i","m","e","s","t","e","p","=","2","4","h">>

\* C9: a call hands at most one request to the transport, exactly one once
\* validation and request construction have passed; the request is a GET with
\* the client's User-Agent; a failed call has not sent again.
C9_OneGetPerCall ==
  \A p \in Procs :
    /\ Len(sent[p]) <= 1
    /\ sent[p] # <<>> =>
         /\ sent[p][1].method = "GET"
         /\ sent[p][1].userAgent = client.userAgent
    /\ pc[p] \in {"sending", "reading", "parsing"} => Len(sent[p]) = 1
    /\ Done(p) =>
         (Len(sent[p]) = 0 <=> ret[p].err.class \in {"validation", "creating request"})

C9_Witness ==
  \E p \in Procs :
    /\ Done(p)
    /\ ret[p].err.class = "sending request"
    /\ ret[p].err.cause = "network"
    /\ Len(sent[p]) = 1
    /\ sent[p][1].userAgent = "price-bot/2"

\* the context of call p is done while the call is blocked in Do
CanceledInDo(p) == pc[p] = "sending" /\ ctx[p] = "canceled"

ReturnedErrorOnly(p) == Done(p) /\ ret[p].err # NoErr /\ ret[p].value = Nil

\* C8: a call whose context is canceled before the server has answered leaves
\* Do only by returning an error with no data, and it does return.
C8_CanceledCallReturnsError ==
  /\ [][\A p \in Procs :
          CanceledInDo(p) =>
            \/ pc'[p] = "sending"
            \/ pc'[p] = "done" /\ ret'[p].err # NoErr /\ ret'[p].value = Nil]_vars
  /\ \A p \in Procs : CanceledInDo(p) ~> ReturnedErrorOnly(p)

C8_Witness ==
  \E p \in Procs :
    /\ ReturnedErrorOnly(p)
    /\ ctx[p] = "canceled"
    /\ ret[p].err.class = "sending request"
    /\ ret[p].err.cause = "context canceled"
    /\ resp[p] = NoResp

\* what call p has built, decoded and returned comes from its own arguments
\* and its own response
OwnRequestAndResult(p) ==
  /\ sent[p] # <<>> =>
       /\ sent[p][1].url = TableURL(args[p])
       /\ sent[p][1].rawQuery = TableQuery(args[p])
  /\ pc[p] = "parsing" => data[p] = resp[p].body.m
  /\ (Done(p) /\ ret[p].err.class = "unexpected status code")
       => ret[p].err.code = DecimalOf[resp[p].status]
  /\ (Succeeded(p) /\ args[p].op \in MapOps)
       => \A id \in DOMAIN ret[p].value.m :
            \E k \in DOMAIN resp[p].body.m :
              ExpectedID[k] = id /\ ret[p].value.m[id] = resp[p].body.m[k]
  /\ (Succeeded(p) /\ args[p].op \notin MapOps)
       => ret[p].value = ListValue(resp[p].body.l)

\* C10: under every interleaving of concurrent calls on one client no step
\* changes the client, and each call's request and result come from its own
\* arguments and its own response.
C10_CallsDoNotInterfere ==
  /\ [][client' = client]_vars
  /\ [](\A p \in Procs : OwnRequestAndResult(p))

C10_Witness ==
  \E p, q \in Procs :
    /\ p # q
    /\ Succeeded(p) /\ Succeeded(q)
    /\ args[p] = args[q]
    /\ args[p].op = "LatestPrices"
    /\ ret[p].value # ret[q].value

====
